---- MODULE Spec2Model ----
(***************************************************************************)
(* A model of the jagl grid widget: the header layout engine               *)
(* (Renderer._calculateHeaderStructure), the table renderer and keyed      *)
(* reconciler (Renderer.render / Renderer.reconcile), the grid controller  *)
(* with its data store (Grid, DataStore), the filter menus (FilterMenu),   *)
(* the loading of data (Grid.loadFromURL, Grid.loadFromJSON), the cells of *)
(* a row and the page size the constructor derives from the configuration. *)
(*                                                                         *)
(* JavaScript values are encoded as follows.  A string is a TLA+ string.   *)
(* A value that may be null is a tuple: <<>> is null, <<n>> the number n.  *)
(* An object identity (a DOM element, a column object) is a natural "id".  *)
(***************************************************************************)
EXTENDS Integers, Sequences, FiniteSets, TLC

VARIABLES
    columns,        \* config.columns: the column forest, in array order
    headerRows,     \* result of the last _calculateHeaderStructure
    leafColumns,    \* result of the last _calculateHeaderStructure
    runs,           \* direct calls of the layout made in the header specification
    config,         \* the rest of the configuration: keyField, dateFormat, ...
    tbody,          \* Renderer.tbody: the rows of the table body, top to bottom
    lastOp,         \* the last renderer call: "none", "render" or "reconcile"
    lastData,       \* the data array handed to that call
    ops,            \* what the last reconcile did to the body (counts)
    calls,          \* the number of renderer calls made so far
    originalData,   \* DataStore.originalData
    viewData,       \* DataStore.viewData
    filterState,    \* Grid.filterState: column key -> accepted values
    sortState,      \* Grid.sortState: [key, order], key <<>> for null
    pagingState,    \* Grid.pagingState
    menu,           \* the last click on an action trigger: the row clicked and
                    \* the record the menu callbacks are bound to (<<>> when
                    \* the handler returned without opening a menu)
    filterMenus,    \* every FilterMenu created so far, in creation order
    activeFilterMenu, \* Grid.activeFilterMenu: a position of filterMenus, 0 for null
    pending,        \* the fetches of loadFromURL that have not settled yet
    error           \* "none", or the exception that escaped a call of the grid

hvars == <<columns, headerRows, leafColumns, runs>>

rvars == <<config, tbody, lastOp, lastData, ops, calls>>

gvars == <<originalData, viewData, filterState, sortState, pagingState, menu>>

xvars == <<filterMenus, activeFilterMenu, pending, error>>

vars == <<columns, headerRows, leafColumns, runs, config, tbody, lastOp, lastData, ops,
          calls, originalData, viewData, filterState, sortState, pagingState, menu,
          filterMenus, activeFilterMenu, pending, error>>

(***************************************************************************)
(* Column forests.  A column node is                                       *)
(*   [id, key, index, datatype, hasFilter, children]                       *)
(* where children is the array of child nodes (empty when the property is  *)
(* absent or an empty array: the code tests both the same way), datatype   *)
(* is "" when absent, hasFilter is the truthiness of the property of that  *)
(* name, and id stands for the identity of the object.                     *)
(***************************************************************************)
MaxNodes == 6

Keys == {"a", "b"}

IndexVals == {0, 1}

\* Forests are enumerated through a flat encoding: node j names its parent
\* (0 for a top-level column); nodes are numbered breadth first, so parents
\* never decrease and the children of a node appear in array order.  Keys
\* are distinct within one sibling list, and the index values of a sibling
\* list are ranks (if a value occurs, every smaller value occurs too), ties
\* included.
DenseRanks(s, q) ==
    \A j \in 1..Len(s) :
        s[j].parent = q =>
            \A v \in 0..(s[j].index - 1) :
                \E m \in 1..Len(s) : s[m].parent = q /\ s[m].index = v

LastParent(s) == IF s = <<>> THEN 0 ELSE s[Len(s)].parent

CanAppend(s, q, k, i) ==
    /\ q >= LastParent(s)
    /\ q <= Len(s)
    /\ \A j \in 1..Len(s) : s[j].parent = q => s[j].key # k
    /\ q > LastParent(s) => DenseRanks(s, LastParent(s))

RECURSIVE FlatPrefixes(_)
FlatPrefixes(n) ==
    IF n = 0 THEN {<<>>}
    ELSE { Append(x[1], [parent |-> x[2], key |-> x[3], index |-> x[4]]) :
             x \in { y \in FlatPrefixes(n - 1) \X (0..(n - 1)) \X Keys \X IndexVals :
                       CanAppend(y[1], y[2], y[3], y[4]) } }

FlatForests(n) == { s \in FlatPrefixes(n) : DenseRanks(s, LastParent(s)) }

RECURSIVE NodeOf(_, _), ChildSeq(_, _, _)
NodeOf(s, i) ==
    [id |-> i, key |-> s[i].key, index |-> s[i].index, datatype |-> "",
     hasFilter |-> FALSE, children |-> ChildSeq(s, i, 1)]

ChildSeq(s, q, j) ==
    IF j > Len(s) THEN <<>>
    ELSE IF s[j].parent = q THEN <<NodeOf(s, j)>> \o ChildSeq(s, q, j + 1)
    ELSE ChildSeq(s, q, j + 1)

\* The forest a flat encoding stands for.
ForestOf(s) == ChildSeq(s, 0, 1)

(***************************************************************************)
(* Renderer._calculateHeaderStructure                                      *)
(***************************************************************************)

\* Array.prototype.sort((a, b) => a.index - b.index): a stable sort.
RECURSIVE InsertByIndex(_, _)
InsertByIndex(sorted, c) ==
    IF sorted = <<>> THEN <<c>>
    ELSE IF sorted[Len(sorted)].index - c.index > 0
         THEN Append(InsertByIndex(SubSeq(sorted, 1, Len(sorted) - 1), c),
                     sorted[Len(sorted)])
         ELSE Append(sorted, c)

RECURSIVE SortByIndex(_)
SortByIndex(cols) ==
    IF cols = <<>> THEN <<>>
    ELSE InsertByIndex(SortByIndex(SubSeq(cols, 1, Len(cols) - 1)), cols[Len(cols)])

\* const header = { ...column, level, colspan: 1, rowspan: 1 }
NewHeader(column, level) ==
    [id |-> column.id, key |-> column.key, index |-> column.index,
     datatype |-> column.datatype, hasFilter |-> column.hasFilter,
     children |-> column.children,
     level |-> level, colspan |-> 1, rowspan |-> 1]

\* headerRows[level + 1].find((h) => h.key === child.key): the first match.
RECURSIVE FindByKey(_, _, _)
FindByKey(row, key, i) ==
    IF i > Len(row) THEN 0
    ELSE IF row[i].key = key THEN i
    ELSE FindByKey(row, key, i + 1)

\* A variant that counts every child as one column, whatever its own span.
ChildColspanOne(row, child) == 1

\* header.colspan += childHeader ? childHeader.colspan : 1
ChildColspan(row, child) ==
    LET i == FindByKey(row, child.key, 1)
    IN  IF i = 0 THEN 1 ELSE row[i].colspan

\* The traversal state is [rows, leaves]: rows is headerRows (rows[l + 1] is
\* headerRows[l]); leaves lists leafColumns as <<level, position>> references
\* into rows, because leafColumns holds the very header objects of headerRows.
RECURSIVE traverse(_, _, _), traverseChildren(_, _, _, _, _)
traverse(column, level, st) ==
    LET rows0  == IF level + 1 > Len(st.rows) THEN Append(st.rows, <<>>) ELSE st.rows
        pos    == Len(rows0[level + 1]) + 1
        rows1  == [rows0 EXCEPT ![level + 1] = Append(@, NewHeader(column, level))]
    IN  IF Len(column.children) > 0
        THEN traverseChildren(column.children, 1, level, pos,
                 [rows |-> [rows1 EXCEPT ![level + 1][pos].colspan = 0],
                  leaves |-> st.leaves])
        ELSE [rows |-> rows1, leaves |-> Append(st.leaves, <<level, pos>>)]

traverseChildren(kids, i, level, pos, st) ==
    IF i > Len(kids) THEN st
    ELSE LET st1 == traverse(kids[i], level + 1, st)
             add == ChildColspan(st1.rows[level + 2], kids[i])
         IN  traverseChildren(kids, i + 1, level, pos,
                 [st1 EXCEPT !.rows[level + 1][pos].colspan = @ + add])

RECURSIVE traverseAll(_, _, _)
traverseAll(cols, i, st) ==
    IF i > Len(cols) THEN st
    ELSE traverseAll(cols, i + 1, traverse(cols[i], 0, st))

\* A variant that measures the depth from one instead of zero.
SetRowspansOffByOne(rows) ==
    [l \in 1..Len(rows) |->
        [p \in 1..Len(rows[l]) |->
            IF Len(rows[l][p].children) > 0 THEN rows[l][p]
            ELSE [rows[l][p] EXCEPT !.rowspan = Len(rows) - l]]]

\* if (!hasChildren) header.rowspan = maxDepth - level
SetRowspans(rows) ==
    [l \in 1..Len(rows) |->
        [p \in 1..Len(rows[l]) |->
            IF Len(rows[l][p].children) > 0 THEN rows[l][p]
            ELSE [rows[l][p] EXCEPT !.rowspan = Len(rows) - (l - 1)]]]

\* The whole function: the input array after the in-place sort, headerRows
\* and leafColumns.
CalcHeaderStructure(cols) ==
    LET sorted == SortByIndex(cols)
        st     == traverseAll(sorted, 1, [rows |-> <<>>, leaves |-> <<>>])
        rows   == SetRowspans(st.rows)
    IN  [columns     |-> sorted,
         headerRows  |-> rows,
         leafColumns |-> [i \in 1..Len(st.leaves) |->
                             rows[st.leaves[i][1] + 1][st.leaves[i][2]]]]

----------------------------------------------------------------------------
(***************************************************************************)
(* Records and keys.  A record is [a, b, v, s]: a and b are string fields  *)
(* used as key fields, v is the displayed field (a string, or null) and s  *)
(* the field that is sorted and filtered (a number, or null).              *)
(***************************************************************************)

\* keyField.split(",")
Split(keyField) ==
    CASE keyField = "a"   -> <<"a">>
      [] keyField = "b"   -> <<"b">>
      [] keyField = "a,b" -> <<"a", "b">>

\* let rowKey = ""; keyField.split(",").forEach((k) => (rowKey += rowData[k]))
RECURSIVE ConcatFields(_, _)
ConcatFields(rowData, fields) ==
    IF fields = <<>> THEN ""
    ELSE rowData[Head(fields)] \o ConcatFields(rowData, Tail(fields))

CompositeKey(rowData, keyField) == ConcatFields(rowData, Split(keyField))

DataKeys(data, keyField) == [i \in 1..Len(data) |-> CompositeKey(data[i], keyField)]

(***************************************************************************)
(* Cell markup.  Generated markup for one cell is [style, text, colspan]:  *)
(* the style attribute ("" when absent), the text between the tags as it   *)
(* is written in the markup (entities included) and the colspan attribute  *)
(* (0 when absent).  A cell of the live table holds the parsed text.       *)
(***************************************************************************)

\* escapeHTML: & < > " ' become entities.
EscapeHTML(text) ==
    CASE text = "q\"" -> "q&quot;"
      [] text = "<"   -> "&lt;"
      [] OTHER        -> text

\* The HTML parser: entities in markup text become characters.
ParseText(markup) ==
    CASE markup = "q&quot;" -> "q\""
      [] markup = "&lt;"    -> "<"
      [] OTHER              -> markup

\* The innerHTML/outerHTML getter: in text, only & < > are written as
\* entities; quotes are written as they are.
SerializeText(chars) ==
    CASE chars = "<" -> "&lt;"
      [] OTHER       -> chars

ParseCells(markup) ==
    [i \in 1..Len(markup) |-> [markup[i] EXCEPT !.text = ParseText(@)]]

SerializeCells(cells) ==
    [i \in 1..Len(cells) |-> [cells[i] EXCEPT !.text = SerializeText(@)]]

\* new Date(valueString) yields a valid date for these strings only.
DateStrings == {"2024-01-05"}

\* formatDate(date, format) for a valid Date.
FormattedDate(str) == "05/01/2024"

\* The date branch shared by render() and _generateRowInnerHtml: the value
\* (a non-empty string) is parsed and handed to formatDate, which returns ""
\* for an invalid date.
FormatCandidate(str) == IF str \in DateStrings THEN FormattedDate(str) ELSE ""

Truthy(value) == value # <<>> /\ value # <<"">>

IsDateColumn(column) == config.dateFormat # <<>> /\ column.datatype = "date"

\* `<td>${this.escapeHTML(cellValue)}</td>`: undefined prints as "undefined",
\* a number (the field s) is returned by escapeHTML as it is and printed in
\* decimal, a string is escaped.
DefaultCellText(column, value) ==
    IF value = <<>> THEN "undefined"
    ELSE IF column.key = "s" /\ value # config.nullPlaceholder THEN ToString(value[1])
    ELSE EscapeHTML(value[1])

MsoStyle == "; mso-number-format:'fmt';"

\* The field s holds numbers: a value read from it is a number unless it is
\* absent and the placeholder stands in for it.
IsNumber(column, value) == column.key = "s" /\ value # config.nullPlaceholder

\* `&& cellValue`: 0 is falsy like "", null and undefined.
TruthyValue(column, value) ==
    IF IsNumber(column, value) THEN value[1] # 0 ELSE Truthy(value)

\* formatDate(new Date(n), format) for a number above the threshold.
FormattedTimestamp(n) == "01/01/1970"

\* The date branch for a truthy value: a string is parsed; a number above
\* 100000 is taken as a timestamp and any other number leaves dateCandidate
\* null, for which formatDate returns "".
DateCandidate(column, value) ==
    IF IsNumber(column, value)
    THEN (IF value[1] > 100000 THEN FormattedTimestamp(value[1]) ELSE "")
    ELSE FormatCandidate(value[1])

\* render(): the markup of one cell (lines 159-236).
RenderCell(rowData, column) ==
    LET v0 == IF rowData[column.key] = <<>> THEN config.nullPlaceholder
              ELSE rowData[column.key]
        text == IF IsDateColumn(column) /\ TruthyValue(column, v0)
                THEN EscapeHTML(DateCandidate(column, v0))
                ELSE DefaultCellText(column, v0)
    IN  IF IsDateColumn(column)
        THEN [style |-> MsoStyle, text |-> SerializeText(ParseText(text)), colspan |-> 0]
        ELSE [style |-> "", text |-> text, colspan |-> 0]

\* _generateRowInnerHtml(): the markup of one cell (lines 420-468).
GenerateCell(rowData, column) ==
    LET v0 == IF rowData[column.key] = <<>> THEN config.nullPlaceholder
              ELSE rowData[column.key]
        v1 == DateCandidate(column, v0)
        \* the second formatDate call receives a string, not a Date
        v2 == IF Truthy(<<v1>>) THEN "" ELSE v1
    IN  [style |-> "",
         text |-> IF IsDateColumn(column) /\ TruthyValue(column, v0)
                  THEN EscapeHTML(v2)
                  ELSE DefaultCellText(column, v0),
         colspan |-> 0]

RenderRowMarkup(rowData, leaves) ==
    [i \in 1..Len(leaves) |-> RenderCell(rowData, leaves[i])]

GenerateRowInnerHtml(rowData, leaves) ==
    [i \in 1..Len(leaves) |-> GenerateCell(rowData, leaves[i])]

(***************************************************************************)
(* The table body.  A row is [el, key, cells]: el is the identity of the   *)
(* <tr> element, key its key attribute (<<>> when the row has none).       *)
(***************************************************************************)

\* maxCols = Math.max(maxCols, row.length) over the header rows
RECURSIVE MaxRowLength(_)
MaxRowLength(rows) ==
    IF rows = <<>> THEN 0
    ELSE LET m == MaxRowLength(Tail(rows))
         IN  IF Len(Head(rows)) > m THEN Len(Head(rows)) ELSE m

\* `<td colspan="${maxCols}">No Data Available</td>` parsed inside <tbody>
NoDataRow(maxCols) ==
    [el |-> 1, key |-> <<>>,
     cells |-> <<[style |-> "", text |-> "No Data Available", colspan |-> maxCols]>>]

\* render(): the body built from data (lines 146-247).
RenderBody(data, layout) ==
    IF Len(data) = 0 THEN <<NoDataRow(MaxRowLength(layout.headerRows))>>
    ELSE [i \in 1..Len(data) |->
            [el |-> i,
             key |-> <<CompositeKey(data[i], config.keyField)>>,
             cells |-> ParseCells(RenderRowMarkup(data[i], layout.leafColumns))]]

Els(body) == { body[i].el : i \in 1..Len(body) }

\* document.createElement('tr'): an element that is not in the body.
FreshEl(body) == CHOOSE e \in 1..(Len(body) + 1) : e \notin Els(body)

PosOfEl(body, e) == CHOOSE i \in 1..Len(body) : body[i].el = e

RemoveAt(body, i) == SubSeq(body, 1, i - 1) \o SubSeq(body, i + 1, Len(body))

InsertAt(body, i, row) == SubSeq(body, 1, i - 1) \o <<row>> \o SubSeq(body, i, Len(body))

\* tbody.insertBefore(tr, ref) for a row tr that may already be in the body;
\* ref = 0 stands for undefined and appends.
InsertBefore(body, row, ref) ==
    LET without == IF row.el \in Els(body) THEN RemoveAt(body, PosOfEl(body, row.el))
                   ELSE body
    IN  IF ref = 0 THEN Append(without, row)
        ELSE InsertAt(without, PosOfEl(without, ref), row)

\* existingRows: `if (key) existingRows.set(key, tr)` over tbody.children;
\* a later row with the same key replaces the earlier one.
HasExisting(body, key) ==
    key # "" /\ \E i \in 1..Len(body) : body[i].key = <<key>>

ExistingEl(body, key) ==
    LET i == CHOOSE j \in 1..Len(body) :
                 /\ body[j].key = <<key>>
                 /\ \A m \in (j + 1)..Len(body) : body[m].key # <<key>>
    IN  body[i].el

NoOps == [writes |-> 0, moves |-> 0, inserts |-> 0, removes |-> 0]

\* newData.forEach((rowData, index) => ...), lines 358-399.  old is the body
\* at the start of reconcile, st = [body, ops] the running state.
RECURSIVE ReconcileRows(_, _, _, _, _)
ReconcileRows(old, newData, i, leaves, st) ==
    IF i > Len(newData) THEN st
    ELSE
      LET rowKey == CompositeKey(newData[i], config.keyField)
          html   == GenerateRowInnerHtml(newData[i], leaves)
          body   == st.body
          atIdx  == IF i <= Len(body) THEN body[i].el ELSE 0
      IN  IF HasExisting(old, rowKey)
          THEN LET e     == ExistingEl(old, rowKey)
                   p     == PosOfEl(body, e)
                   write == SerializeCells(body[p].cells) # html
                   row   == IF write THEN [body[p] EXCEPT !.cells = ParseCells(html)]
                            ELSE body[p]
                   body1 == [body EXCEPT ![p] = row]
                   move  == atIdx # e
                   body2 == IF move THEN InsertBefore(body1, row, atIdx) ELSE body1
               IN  ReconcileRows(old, newData, i + 1, leaves,
                       [body |-> body2,
                        ops  |-> [st.ops EXCEPT
                                    !.writes = @ + (IF write THEN 1 ELSE 0),
                                    !.moves  = @ + (IF move THEN 1 ELSE 0)]])
          ELSE LET row == [el |-> FreshEl(body), key |-> <<rowKey>>,
                           cells |-> ParseCells(html)]
               IN  ReconcileRows(old, newData, i + 1, leaves,
                       [body |-> InsertBefore(body, row, atIdx),
                        ops  |-> [st.ops EXCEPT !.inserts = @ + 1]])

\* existingRows.forEach((tr, key) => { if (!processedKeys.has(key)) tr.remove() })
RemovedEls(old, newData) ==
    { ExistingEl(old, k) :
        k \in { old[i].key[1] : i \in { j \in 1..Len(old) : Truthy(old[j].key) } }
              \ { CompositeKey(newData[i], config.keyField) : i \in 1..Len(newData) } }

RECURSIVE DropEls(_, _)
DropEls(body, gone) ==
    IF body = <<>> THEN <<>>
    ELSE IF Head(body).el \in gone THEN DropEls(Tail(body), gone)
    ELSE <<Head(body)>> \o DropEls(Tail(body), gone)

\* reconcile(newData) on a body that exists (lines 339-407).
ReconcileBody(old, newData, leaves) ==
    LET st   == ReconcileRows(old, newData, 1, leaves, [body |-> old, ops |-> NoOps])
        gone == RemovedEls(old, newData)
    IN  [body |-> DropEls(st.body, gone),
         ops  |-> [st.ops EXCEPT !.removes = Cardinality(gone)]]

----------------------------------------------------------------------------
(***************************************************************************)
(* Specification of the header layout: any forest, laid out repeatedly.    *)
(***************************************************************************)
MaxRuns == 2

NoConfig == [keyField |-> "a", dateFormat |-> <<>>, nullPlaceholder |-> <<>>]

\* this.sortState = { key: null, order: 'asc', ...config.sorting }
NoSort == [key |-> <<>>, order |-> "asc"]

NoPaging == [currentPage |-> 1, pageSize |-> 0, totalRecords |-> 0, totalPages |-> 0]

NoMenu == [row |-> 0, record |-> <<>>]

HeaderInit ==
    /\ \E n \in 0..MaxNodes : \E s \in FlatForests(n) : columns = ForestOf(s)
    /\ headerRows = <<>>
    /\ leafColumns = <<>>
    /\ runs = 0
    /\ config = NoConfig
    /\ tbody = <<>>
    /\ lastOp = "none"
    /\ lastData = <<>>
    /\ ops = NoOps
    /\ calls = 0
    /\ originalData = <<>>
    /\ viewData = <<>>
    /\ filterState = <<>>
    /\ sortState = NoSort
    /\ pagingState = NoPaging
    /\ menu = NoMenu
    /\ filterMenus = <<>>
    /\ activeFilterMenu = 0
    /\ pending = {}
    /\ error = "none"

CalculateHeaderStructure ==
    /\ runs < MaxRuns
    /\ LET r == CalcHeaderStructure(columns)
       IN  /\ columns' = r.columns
           /\ headerRows' = r.headerRows
           /\ leafColumns' = r.leafColumns
    /\ runs' = runs + 1
    /\ UNCHANGED <<rvars, gvars, xvars>>

HeaderNext == CalculateHeaderStructure

HeaderSpec == HeaderInit /\ [][HeaderNext]_vars

----------------------------------------------------------------------------
(***************************************************************************)
(* Specification of the renderer: one leaf column showing the field v,     *)
(* render() and reconcile() called with arbitrary duplicate-free data.     *)
(***************************************************************************)
MaxRows == 2

MaxCalls == 3

\* The duplicate-free data arrays of at most max records.
DataArrays(records, max, keyField) ==
    UNION { { d \in [1..n -> records] :
                \A i \in 1..n : \A j \in 1..n :
                    i # j => CompositeKey(d[i], keyField) # CompositeKey(d[j], keyField) } :
            n \in 0..max }

\* Four composite keys ("", "1", "2" and "12"); the record keyed "1" comes
\* with either content, so that a reused row can change its content.
RenderRecords ==
    { r \in [a : {"", "1"}, b : {"", "2"}, v : {<<"x">>, <<"q\"">>}, s : {<<>>}] :
        r.v = <<"q\"">> => (r.a = "1" /\ r.b = "") }

RenderInit ==
    /\ columns = <<[id |-> 1, key |-> "v", index |-> 0, datatype |-> "date",
                    hasFilter |-> FALSE, children |-> <<>>]>>
    /\ \E df \in {<<>>, <<"fmt">>} :
          config = [keyField |-> "a,b", dateFormat |-> df, nullPlaceholder |-> <<>>]
    /\ headerRows = <<>>
    /\ leafColumns = <<>>
    /\ runs = 0
    /\ tbody = <<>>
    /\ lastOp = "none"
    /\ lastData = <<>>
    /\ ops = NoOps
    /\ calls = 0
    /\ originalData = <<>>
    /\ viewData = <<>>
    /\ filterState = <<>>
    /\ sortState = NoSort
    /\ pagingState = NoPaging
    /\ menu = NoMenu
    /\ filterMenus = <<>>
    /\ activeFilterMenu = 0
    /\ pending = {}
    /\ error = "none"

\* Renderer.render(data, pagingState)
Render(data) ==
    /\ calls < MaxCalls
    /\ LET layout == CalcHeaderStructure(columns)
       IN  /\ columns' = layout.columns
           /\ headerRows' = layout.headerRows
           /\ leafColumns' = layout.leafColumns
           /\ tbody' = RenderBody(data, layout)
    /\ lastOp' = "render"
    /\ lastData' = data
    /\ ops' = NoOps
    /\ calls' = calls + 1
    /\ UNCHANGED <<config, runs, gvars, xvars>>

\* Renderer.reconcile(newData); it returns at once while there is no tbody.
Reconcile(newData) ==
    /\ lastOp # "none"
    /\ calls < MaxCalls
    /\ calls' = calls + 1
    /\ LET layout == CalcHeaderStructure(columns)
           r      == ReconcileBody(tbody, newData, layout.leafColumns)
       IN  /\ columns' = layout.columns
           /\ headerRows' = layout.headerRows
           /\ leafColumns' = layout.leafColumns
           /\ tbody' = r.body
           /\ ops' = r.ops
    /\ lastOp' = "reconcile"
    /\ lastData' = newData
    /\ UNCHANGED <<config, runs, gvars, xvars>>

RenderData == DataArrays(RenderRecords, MaxRows, "a,b")

RenderNext ==
    \E data \in RenderData :
        \/ Render(data)
        \/ Reconcile(data)

RenderSpec == RenderInit /\ [][RenderNext]_vars

----------------------------------------------------------------------------
(***************************************************************************)
(* Specification of the cells: one record at a time is rendered and        *)
(* reconciled under the columns v (strings) and s (numbers), each of which *)
(* may be a date column, with and without a dateFormat.                    *)
(***************************************************************************)

\* The values of a cell: absent, a string no date can be read from, a date
\* string; absent, zero, a number up to the threshold of render() and a
\* number above it.
CellRecords ==
    [a : {"1"}, b : {""}, v : {<<>>, <<"x">>, <<"2024-01-05">>},
     s : {<<>>, <<0>>, <<5>>, <<200000>>}]

CellData == { <<r>> : r \in CellRecords }

CellInit ==
    /\ \E dv \in {"", "date"} : \E ds \in {"", "date"} :
          columns = << [id |-> 1, key |-> "v", index |-> 0, datatype |-> dv,
                        hasFilter |-> FALSE, children |-> <<>>],
                       [id |-> 2, key |-> "s", index |-> 1, datatype |-> ds,
                        hasFilter |-> FALSE, children |-> <<>>] >>
    /\ \E df \in {<<>>, <<"fmt">>} :
          config = [keyField |-> "a", dateFormat |-> df, nullPlaceholder |-> <<>>]
    /\ headerRows = <<>>
    /\ leafColumns = <<>>
    /\ runs = 0
    /\ tbody = <<>>
    /\ lastOp = "none"
    /\ lastData = <<>>
    /\ ops = NoOps
    /\ calls = 0
    /\ originalData = <<>>
    /\ viewData = <<>>
    /\ filterState = <<>>
    /\ sortState = NoSort
    /\ pagingState = NoPaging
    /\ menu = NoMenu
    /\ filterMenus = <<>>
    /\ activeFilterMenu = 0
    /\ pending = {}
    /\ error = "none"

CellNext ==
    \E data \in CellData :
        \/ Render(data)
        \/ Reconcile(data)

CellSpec == CellInit /\ [][CellNext]_vars

----------------------------------------------------------------------------
(***************************************************************************)
(* Specification of the empty table: render() is called with an empty data *)
(* array under any column forest.                                          *)
(***************************************************************************)
EmptyRenderNext == \E data \in {<<>>} : Render(data)

EmptyRenderSpec == HeaderInit /\ [][EmptyRenderNext]_vars

----------------------------------------------------------------------------
(***************************************************************************)
(* DataStore                                                               *)
(***************************************************************************)

\* getRecordById(id, idKey): originalData.find((record) =>
\*     idKey.split(',').every((key) => record[key] == id)); <<>> is undefined.
RECURSIVE getRecordById(_, _, _, _)
getRecordById(data, id, idKey, i) ==
    IF i > Len(data) THEN <<>>
    ELSE IF \A n \in 1..Len(Split(idKey)) : data[i][Split(idKey)[n]] = id
         THEN <<data[i]>>
         ELSE getRecordById(data, id, idKey, i + 1)

\* a[key] for the sort key, which is null until a header is clicked: a[null]
\* is undefined.
FieldOf(row, key) == IF key = <<>> THEN <<>> ELSE row[key[1]]

\* The comparator of sortData on normalised values.  normalize maps null to
\* null and a number to itself (through the date branch or the numeric
\* branch, with the same result); dir is 1 or -1.
Compare(valA, valB, dir) ==
    IF valA = valB THEN 0
    ELSE IF valA = <<>> THEN 1 * dir
    ELSE IF valB = <<>> THEN (0 - 1) * dir
    ELSE (valA[1] - valB[1]) * dir

Dir(order) == IF order = "asc" THEN 1 ELSE 0 - 1

RECURSIVE InsertSorted(_, _, _, _)
InsertSorted(sorted, row, key, dir) ==
    IF sorted = <<>> THEN <<row>>
    ELSE IF Compare(FieldOf(sorted[Len(sorted)], key), FieldOf(row, key), dir) > 0
         THEN Append(InsertSorted(SubSeq(sorted, 1, Len(sorted) - 1), row, key, dir),
                     sorted[Len(sorted)])
         ELSE Append(sorted, row)

\* sortData(key, order): this.viewData.sort(comparator), a stable sort.
RECURSIVE sortData(_, _, _)
sortData(view, key, order) ==
    IF view = <<>> THEN <<>>
    ELSE InsertSorted(sortData(SubSeq(view, 1, Len(view) - 1), key, order),
                      view[Len(view)], key, Dir(order))

\* A variant that lets a row pass when some filter key accepts it.
filterDataAny(original, filterMap) ==
    IF DOMAIN filterMap = {} THEN original
    ELSE SelectSeq(original,
                   LAMBDA row : \E key \in DOMAIN filterMap : row[key] \in filterMap[key])

\* filterData(filterMap): the new viewData.
filterData(original, filterMap) ==
    IF DOMAIN filterMap = {} THEN original
    ELSE SelectSeq(original,
                   LAMBDA row : \A key \in DOMAIN filterMap : row[key] \in filterMap[key])

(***************************************************************************)
(* Grid.  The grid shows the columns v and s; paging is enabled (the       *)
(* default) and the renderer works with the grid's configuration.          *)
(***************************************************************************)
MaxRecords == 2

PageSize == 1

\* Four records; the first two share the field a, the last two as well, and
\* two records share the value of s.
GridRecords ==
    { [a |-> "1", b |-> "",  v |-> <<"x">>, s |-> <<1>>],
      [a |-> "1", b |-> "2", v |-> <<"x">>, s |-> <<>>],
      [a |-> "2", b |-> "",  v |-> <<"x">>, s |-> <<2>>],
      [a |-> "2", b |-> "2", v |-> <<"x">>, s |-> <<1>>] }

GridColumns ==
    << [id |-> 1, key |-> "v", index |-> 0, datatype |-> "", hasFilter |-> FALSE,
        children |-> <<>>],
       [id |-> 2, key |-> "s", index |-> 1, datatype |-> "", hasFilter |-> FALSE,
        children |-> <<>>] >>

\* The selections a filter menu is applied with; the empty one included.
Selections(key) ==
    IF key = "a" THEN {{}, {"1"}}
    ELSE {{}, {<<1>>}, {<<>>, <<2>>}}

FilterKeys == {"a", "s"}

CeilDiv(n, d) == (n + d - 1) \div d

\* A pageSize that is undefined, and the NaN that arithmetic with it yields,
\* are both written NaN; no size, count or page number is negative.
NaN == 0 - 1

\* Math.ceil(totalRecords / pageSize)
TotalPages(totalRecords, pageSize) ==
    IF pageSize = NaN THEN NaN ELSE CeilDiv(totalRecords, pageSize)

Min(m, n) == IF m < n THEN m ELSE n

\* A variant whose slice runs one record too far.
PageSliceInclusive(fullData, paging) ==
    LET start == (paging.currentPage - 1) * paging.pageSize
        end   == start + paging.pageSize + 1
    IN  SubSeq(fullData, start + 1, Min(end, Len(fullData)))

\* fullData.slice(start, end); slice(NaN, NaN) is slice(0, 0)
PageSlice(fullData, paging) ==
    LET start == (paging.currentPage - 1) * paging.pageSize
        end   == start + paging.pageSize
    IN  IF paging.pageSize = NaN THEN <<>>
        ELSE SubSeq(fullData, start + 1, Min(end, Len(fullData)))

\* Grid.render() for the store's view, the column array and the current page
\* as the calling handler leaves them.
render(cols, fullData, currentPage) ==
    LET paging == [currentPage  |-> currentPage,
                   pageSize     |-> pagingState.pageSize,
                   totalRecords |-> Len(fullData),
                   totalPages   |-> TotalPages(Len(fullData), pagingState.pageSize)]
        data   == PageSlice(fullData, paging)
        layout == CalcHeaderStructure(cols)
    IN  /\ pagingState' = paging
        /\ columns' = layout.columns
        /\ headerRows' = layout.headerRows
        /\ leafColumns' = layout.leafColumns
        /\ tbody' = RenderBody(data, layout)
        /\ lastOp' = "render"
        /\ lastData' = data
        /\ ops' = NoOps
        /\ menu' = NoMenu

\* new Grid(container, config) without a data source: init() renders the
\* empty state.
GridInit ==
    /\ \E kf \in {"a", "a,b"} :
          config = [keyField |-> kf, dateFormat |-> <<>>, nullPlaceholder |-> <<>>]
    /\ originalData = <<>>
    /\ viewData = <<>>
    /\ filterState = <<>>
    /\ sortState = NoSort
    /\ pagingState = [currentPage |-> 1, pageSize |-> PageSize, totalRecords |-> 0,
                      totalPages |-> 0]
    /\ LET layout == CalcHeaderStructure(GridColumns)
       IN  /\ columns = layout.columns
           /\ headerRows = layout.headerRows
           /\ leafColumns = layout.leafColumns
           /\ tbody = <<NoDataRow(MaxRowLength(layout.headerRows))>>
    /\ lastOp = "render"
    /\ lastData = <<>>
    /\ ops = NoOps
    /\ runs = 0
    /\ calls = 0
    /\ menu = NoMenu
    /\ filterMenus = <<>>
    /\ activeFilterMenu = 0
    /\ pending = {}
    /\ error = "none"

\* loadFromJSON(data): _setDataAndRender(data)
loadFromJSON(data) ==
    /\ originalData' = data
    /\ viewData' = data
    /\ render(columns, data, 1)
    /\ UNCHANGED <<config, runs, calls, filterState, sortState>>

\* A variant that sorts ascending on every click.
handleHeaderClickAscending(key) ==
    LET view == sortData(viewData, <<key>>, "asc")
    IN  /\ sortState' = [key |-> <<key>>, order |-> "asc"]
        /\ viewData' = view
        /\ render(columns, view, pagingState.currentPage)
        /\ UNCHANGED <<config, runs, calls, originalData, filterState>>

\* handleHeaderClick(key), sort(key, order) included
handleHeaderClick(key) ==
    LET order == IF sortState.key = <<key>>
                 THEN (IF sortState.order = "asc" THEN "desc" ELSE "asc")
                 ELSE "asc"
        view  == sortData(viewData, <<key>>, order)
    IN  /\ sortState' = [key |-> <<key>>, order |-> order]
        /\ viewData' = view
        /\ render(columns, view, pagingState.currentPage)
        /\ UNCHANGED <<config, runs, calls, originalData, filterState>>

\* this.filterState[key] = selection, or delete this.filterState[key]
SetFilter(state, key, selection) ==
    IF selection # {}
    THEN [k \in DOMAIN state \cup {key} |-> IF k = key THEN selection ELSE state[k]]
    ELSE [k \in DOMAIN state \ {key} |-> state[k]]

\* column.hasFilter = Object.hasOwn(filterState, column.key) && filterState[column.key]
\* for the top-level columns
MarkFiltered(cols, state) ==
    [i \in 1..Len(cols) |-> [cols[i] EXCEPT !.hasFilter = cols[i].key \in DOMAIN state]]

\* A variant that does not sort the filtered data again.
applyFilterUnsorted(key, selection) ==
    LET state == SetFilter(filterState, key, selection)
        view  == filterData(originalData, state)
    IN  /\ filterState' = state
        /\ viewData' = view
        /\ render(MarkFiltered(columns, state), view, 1)
        /\ UNCHANGED <<config, runs, calls, originalData, sortState>>

\* A variant that stays on the page shown before.
applyFilterKeepPage(key, selection) ==
    LET state == SetFilter(filterState, key, selection)
        view  == sortData(filterData(originalData, state), sortState.key, sortState.order)
    IN  /\ filterState' = state
        /\ viewData' = view
        /\ render(MarkFiltered(columns, state), view, pagingState.currentPage)
        /\ UNCHANGED <<config, runs, calls, originalData, sortState>>

\* applyFilter(key, selection)
applyFilter(key, selection) ==
    LET state == SetFilter(filterState, key, selection)
        view  == sortData(filterData(originalData, state), sortState.key, sortState.order)
    IN  /\ filterState' = state
        /\ viewData' = view
        /\ render(MarkFiltered(columns, state), view, 1)
        /\ UNCHANGED <<config, runs, calls, originalData, sortState>>

\* A variant that tests the lower end of the range only.
goToPageNoUpperBound(pageNumber) ==
    IF pageNumber < 1
    THEN UNCHANGED <<hvars, rvars, gvars>>
    ELSE /\ render(columns, viewData, pageNumber)
         /\ UNCHANGED <<config, runs, calls, originalData, viewData, filterState,
                        sortState>>

\* pageNumber > this.pagingState.totalPages: false when totalPages is NaN
Exceeds(pageNumber, totalPages) == totalPages # NaN /\ pageNumber > totalPages

\* goToPage(pageNumber); an invalid page number returns at once.
goToPage(pageNumber) ==
    IF pageNumber < 1 \/ Exceeds(pageNumber, pagingState.totalPages)
    THEN UNCHANGED <<hvars, rvars, gvars>>
    ELSE /\ render(columns, viewData, pageNumber)
         /\ UNCHANGED <<config, runs, calls, originalData, viewData, filterState,
                        sortState>>

\* A click on the action trigger of body row i: EventManager reads the key
\* attribute of the row and calls handleActionMenuClick(key, trigger), which
\* binds the callbacks of the menu to the record found, or returns when none
\* is found.
handleActionMenuClick(i) ==
    /\ i \in 1..Len(tbody)
    /\ tbody[i].key # <<>>
    /\ menu' = [row |-> i,
                record |-> getRecordById(originalData, tbody[i].key[1], config.keyField, 1)]
    /\ UNCHANGED <<hvars, rvars, originalData, viewData, filterState, sortState,
                   pagingState>>

GridData == DataArrays(GridRecords, MaxRecords, "a,b")

SortKeys == {"v", "s"}

PageNumbers == 0..(MaxRecords \div PageSize + 2)

\* The calls made on the grid from outside: no filter menu and no fetch is
\* involved.
GridNext ==
    \/ \E data \in GridData :
          /\ \A i \in 1..Len(data) : \A j \in 1..Len(data) :
                i # j => CompositeKey(data[i], config.keyField)
                           # CompositeKey(data[j], config.keyField)
          /\ loadFromJSON(data)
          /\ UNCHANGED xvars
    \/ \E key \in SortKeys : handleHeaderClick(key) /\ UNCHANGED xvars
    \/ \E key \in FilterKeys : \E selection \in Selections(key) :
          applyFilter(key, selection) /\ UNCHANGED xvars
    \/ \E pageNumber \in PageNumbers : goToPage(pageNumber) /\ UNCHANGED xvars
    \/ \E i \in 1..PageSize : handleActionMenuClick(i) /\ UNCHANGED xvars

GridSpec == GridInit /\ [][GridNext]_vars

----------------------------------------------------------------------------
(***************************************************************************)
(* Specification of the page size: the grid is constructed with a caller's *)
(* configuration that has no paging object, one without pageSize or one    *)
(* with it, and is then loaded, sorted and paged.  config.paging is        *)
(* this.config.paging, the outcome of the constructor's merge.             *)
(***************************************************************************)
MaxPaged == 11

CallerPageSize == 4

\* paging: { enabled: true, pageSize: 10 }, the default of the constructor
DefaultPaging == [enabled |-> TRUE, pageSize |-> 10]

\* The paging objects a caller passes (each with enabled: true); <<>> stands
\* for a configuration without one.
CallerPaging ==
    {<<>>, <<[enabled |-> TRUE]>>, <<[enabled |-> TRUE, pageSize |-> CallerPageSize]>>}

\* { ...defaults, ...config }: the caller's paging object replaces the
\* default one as a whole.
MergedPaging(paging) == IF paging = <<>> THEN DefaultPaging ELSE paging[1]

\* pageSize: this.config.paging.pageSize
ConfiguredPageSize(paging) ==
    IF "pageSize" \in DOMAIN paging THEN paging.pageSize ELSE NaN

PagedRecord(i) == [a |-> ToString(i), b |-> "", v |-> <<"x">>, s |-> <<i>>]

\* One data array for every length up to MaxPaged.
PagedData == { [i \in 1..n |-> PagedRecord(i)] : n \in 0..MaxPaged }

\* new Grid(container, config) without a data source: init() renders the
\* empty state.
PagingInit ==
    /\ \E paging \in CallerPaging :
          config = [keyField |-> "a", dateFormat |-> <<>>, nullPlaceholder |-> <<>>,
                    paging |-> MergedPaging(paging)]
    /\ originalData = <<>>
    /\ viewData = <<>>
    /\ filterState = <<>>
    /\ sortState = NoSort
    /\ pagingState = [currentPage |-> 1,
                      pageSize |-> ConfiguredPageSize(config.paging),
                      totalRecords |-> 0,
                      totalPages |-> TotalPages(0, ConfiguredPageSize(config.paging))]
    /\ LET layout == CalcHeaderStructure(GridColumns)
       IN  /\ columns = layout.columns
           /\ headerRows = layout.headerRows
           /\ leafColumns = layout.leafColumns
           /\ tbody = <<NoDataRow(MaxRowLength(layout.headerRows))>>
    /\ lastOp = "render"
    /\ lastData = <<>>
    /\ ops = NoOps
    /\ runs = 0
    /\ calls = 0
    /\ menu = NoMenu
    /\ filterMenus = <<>>
    /\ activeFilterMenu = 0
    /\ pending = {}
    /\ error = "none"

PagedPageNumbers == 0..(MaxPaged \div CallerPageSize + 2)

PagingNext ==
    \/ \E data \in PagedData : loadFromJSON(data) /\ UNCHANGED xvars
    \/ \E key \in {"s"} : handleHeaderClick(key) /\ UNCHANGED xvars
    \/ \E pageNumber \in PagedPageNumbers : goToPage(pageNumber) /\ UNCHANGED xvars

PagingSpec == PagingInit /\ [][PagingNext]_vars

----------------------------------------------------------------------------
(***************************************************************************)
(* Filter menus.  A FilterMenu is [key, open, timer, listener]: the column *)
(* it was opened for, whether its element is attached to the document,     *)
(* whether the setTimeout of its constructor has yet to run, and whether    *)
(* its once-only click listener is registered on the document.             *)
(***************************************************************************)
MaxMenus == 3

\* The header cells that carry a filter icon.
IconKeys == {"v", "s"}

\* multiSelect.getSelection() when Apply is clicked.
MenuSelections(key) == IF key = "v" THEN {{}, {<<"x">>}} ELSE Selections(key)

MenuData ==
    << [a |-> "1", b |-> "",  v |-> <<"x">>, s |-> <<1>>],
       [a |-> "1", b |-> "2", v |-> <<"x">>, s |-> <<>>] >>

\* FilterMenu.close()
CloseMenu(menus, m) == [menus EXCEPT ![m].open = FALSE]

\* new Grid(container, config) with dataSource {mode: 'json', source: MenuData}:
\* init() loads and renders the data.
MenuInit ==
    /\ config = [keyField |-> "a,b", dateFormat |-> <<>>, nullPlaceholder |-> <<>>]
    /\ originalData = MenuData
    /\ viewData = MenuData
    /\ filterState = <<>>
    /\ sortState = NoSort
    /\ pagingState = [currentPage |-> 1, pageSize |-> PageSize,
                      totalRecords |-> Len(MenuData),
                      totalPages |-> CeilDiv(Len(MenuData), PageSize)]
    /\ LET layout == CalcHeaderStructure(GridColumns)
       IN  /\ columns = layout.columns
           /\ headerRows = layout.headerRows
           /\ leafColumns = layout.leafColumns
           /\ lastData = PageSlice(MenuData, pagingState)
           /\ tbody = RenderBody(lastData, layout)
    /\ lastOp = "render"
    /\ ops = NoOps
    /\ runs = 0
    /\ calls = 0
    /\ menu = NoMenu
    /\ filterMenus = <<>>
    /\ activeFilterMenu = 0
    /\ pending = {}
    /\ error = "none"

\* A variant that leaves the menu opened before as it is.
handleFilterIconClickKeepOpen(key) ==
    /\ Len(filterMenus) < MaxMenus
    /\ filterMenus' = Append(filterMenus,
                             [key |-> key, open |-> TRUE, timer |-> TRUE,
                              listener |-> FALSE])
    /\ activeFilterMenu' = Len(filterMenus) + 1
    /\ UNCHANGED <<hvars, rvars, gvars, pending, error>>

\* A click on a filter icon: stopPropagation keeps the click from the
\* document, then handleFilterIconClick(key, anchor) closes the active menu
\* and creates the new one, whose constructor attaches it and sets the timer.
handleFilterIconClick(key) ==
    /\ Len(filterMenus) < MaxMenus
    /\ LET closed == IF activeFilterMenu # 0 THEN CloseMenu(filterMenus, activeFilterMenu)
                     ELSE filterMenus
       IN  filterMenus' = Append(closed,
                                 [key |-> key, open |-> TRUE, timer |-> TRUE,
                                  listener |-> FALSE])
    /\ activeFilterMenu' = Len(filterMenus) + 1
    /\ UNCHANGED <<hvars, rvars, gvars, pending, error>>

\* The setTimeout callback of a menu: the document gets its click listener.
TimerFires(m) ==
    /\ filterMenus[m].timer
    /\ filterMenus' = [filterMenus EXCEPT ![m].timer = FALSE, ![m].listener = TRUE]
    /\ UNCHANGED <<hvars, rvars, gvars, activeFilterMenu, pending, error>>

\* A click on Apply in an open menu: onApply(selection), then close(); the
\* menu stops the click before it reaches the document.
ApplyClick(m, selection) ==
    /\ filterMenus[m].open
    /\ applyFilter(filterMenus[m].key, selection)
    /\ filterMenus' = CloseMenu(filterMenus, m)
    /\ UNCHANGED <<activeFilterMenu, pending, error>>

\* Any other click inside an open menu: stopped by the menu, no handler.
ClickInsideMenu(m) ==
    /\ filterMenus[m].open
    /\ UNCHANGED vars

\* A click elsewhere in the document: every registered listener runs close()
\* once and is gone.
ClickElsewhere ==
    /\ filterMenus' = [m \in 1..Len(filterMenus) |->
                         IF filterMenus[m].listener
                         THEN [filterMenus[m] EXCEPT !.open = FALSE, !.listener = FALSE]
                         ELSE filterMenus[m]]
    /\ UNCHANGED <<hvars, rvars, gvars, activeFilterMenu, pending, error>>

MenuNext ==
    \/ \E key \in IconKeys : handleFilterIconClick(key)
    \/ \E m \in 1..Len(filterMenus) : TimerFires(m)
    \/ \E m \in 1..Len(filterMenus) :
          \E selection \in MenuSelections(filterMenus[m].key) : ApplyClick(m, selection)
    \/ \E m \in 1..Len(filterMenus) : ClickInsideMenu(m)
    \/ ClickElsewhere

MenuSpec == MenuInit /\ [][MenuNext]_vars

----------------------------------------------------------------------------
(***************************************************************************)
(* Loading.  A fetch is [id, body, settled]: id numbers the loadFromURL     *)
(* calls in the order they were made, body is what the fetch will yield,   *)
(* settled is 0 while the fetch is in flight and afterwards its place in   *)
(* the order of settling.  A body is [kind, data]:                         *)
(*   "array"       the response is a JSON array, data its records;         *)
(*   "string"      the response is a JSON string, data its characters, each *)
(*                 as the value iteration yields (see CharRecord);         *)
(*   "nonIterable" the response is a JSON object, null or a number;        *)
(*   "notJSON"     response.json() rejects;                                *)
(*   "reject"      fetch itself rejects.                                   *)
(* A configuration without keyField is a record without that field, one    *)
(* without dataSource likewise; dataSource holds the mode.                 *)
(***************************************************************************)
MaxLoads == 2

LoadArrays ==
    { <<>>,
      << [a |-> "1", b |-> "", v |-> <<"x">>, s |-> <<1>>] >>,
      << [a |-> "2", b |-> "", v |-> <<"x">>, s |-> <<2>>],
         [a |-> "1", b |-> "", v |-> <<"x">>, s |-> <<1>>] >> }

\* An element of [...dataSource] for a string: a one-character string.  Every
\* property read from it is undefined: as part of a row key it reads
\* "undefined", as a cell value it is absent.
CharRecord(c) ==
    [a |-> "undefined", b |-> "undefined", v |-> <<>>, s |-> <<>>, char |-> c]

Bodies ==
    { [kind |-> "array", data |-> d] : d \in LoadArrays }
    \cup { [kind |-> "string", data |-> <<CharRecord("p")>>] }
    \cup { [kind |-> k, data |-> <<>>] : k \in {"nonIterable", "notJSON", "reject"} }

\* Whether `[...dataSource]` in setData succeeds: arrays and strings iterate.
Iterable(body) == body.kind \in {"array", "string"}

\* [...dataSource]: the records of an array, the characters of a string
Spread(body) == body.data

KeyFieldMissing == "keyField" \notin DOMAIN config

\* Grid.render() where config.keyField may be missing: building the first
\* row then throws a TypeError (undefined has no split) after the container
\* was cleared and a new, empty tbody was made.  caught tells whether the
\* caller catches it.
renderOrThrow(cols, fullData, currentPage, caught) ==
    LET paging == [currentPage  |-> currentPage,
                   pageSize     |-> pagingState.pageSize,
                   totalRecords |-> Len(fullData),
                   totalPages   |-> TotalPages(Len(fullData), pagingState.pageSize)]
        data   == PageSlice(fullData, paging)
        layout == CalcHeaderStructure(cols)
    IN  IF KeyFieldMissing /\ data # <<>>
        THEN /\ pagingState' = paging
             /\ columns' = layout.columns
             /\ headerRows' = layout.headerRows
             /\ leafColumns' = layout.leafColumns
             /\ tbody' = <<>>
             /\ lastOp' = "render"
             /\ lastData' = data
             /\ ops' = NoOps
             /\ menu' = NoMenu
             /\ error' = IF caught THEN error ELSE "TypeError"
        ELSE /\ render(cols, fullData, currentPage)
             /\ error' = error

\* _setDataAndRender(data) for data that iterates
setDataAndRender(data, caught) ==
    /\ originalData' = data
    /\ viewData' = data
    /\ renderOrThrow(columns, data, 1, caught)
    /\ UNCHANGED <<config, runs, calls, filterState, sortState>>

InFlight == { r \in pending : r.settled = 0 }

\* new Grid(container, config): without a data source init() renders the
\* empty state; with mode 'url' it starts the first fetch and with any other
\* mode but 'json' it logs an error, and in both cases nothing is rendered.
LoadInit ==
    /\ \E c \in { [dateFormat |-> <<>>, nullPlaceholder |-> <<>>],
                  [dateFormat |-> <<>>, nullPlaceholder |-> <<>>, keyField |-> "a,b"] } :
          \E src \in { [k \in {} |-> ""], [dataSource |-> "url"], [dataSource |-> "other"] } :
             config = [f \in DOMAIN c \cup DOMAIN src |->
                          IF f \in DOMAIN c THEN c[f] ELSE src[f]]
    /\ originalData = <<>>
    /\ viewData = <<>>
    /\ filterState = <<>>
    /\ sortState = NoSort
    /\ pagingState = [currentPage |-> 1, pageSize |-> PageSize, totalRecords |-> 0,
                      totalPages |-> 0]
    /\ IF "dataSource" \in DOMAIN config
       THEN /\ columns = GridColumns
            /\ headerRows = <<>>
            /\ leafColumns = <<>>
            /\ tbody = <<>>
            /\ lastOp = "none"
       ELSE LET layout == CalcHeaderStructure(GridColumns)
            IN  /\ columns = layout.columns
                /\ headerRows = layout.headerRows
                /\ leafColumns = layout.leafColumns
                /\ tbody = <<NoDataRow(MaxRowLength(layout.headerRows))>>
                /\ lastOp = "render"
    /\ IF "dataSource" \in DOMAIN config /\ config.dataSource = "url"
       THEN \E body \in Bodies : pending = {[id |-> 1, body |-> body, settled |-> 0]}
       ELSE pending = {}
    /\ lastData = <<>>
    /\ ops = NoOps
    /\ runs = 0
    /\ calls = 0
    /\ menu = NoMenu
    /\ filterMenus = <<>>
    /\ activeFilterMenu = 0
    /\ error = "none"

\* loadFromURL(url) up to its first await: the fetch is started.
loadFromURL(body) ==
    /\ Cardinality(pending) < MaxLoads
    /\ pending' = pending \cup {[id |-> Cardinality(pending) + 1, body |-> body,
                                 settled |-> 0]}
    /\ UNCHANGED <<hvars, rvars, gvars, filterMenus, activeFilterMenu, error>>

Settled(r) == [r EXCEPT !.settled = Cardinality(pending \ InFlight) + 1]

\* A variant that drops a response when a later loadFromURL has been called.
SettleLatestOnly(r) ==
    /\ r \in InFlight
    /\ pending' = (pending \ {r}) \cup {Settled(r)}
    /\ IF Iterable(r.body) /\ \A q \in pending : q.id <= r.id
       THEN setDataAndRender(Spread(r.body), TRUE)
       ELSE UNCHANGED <<hvars, rvars, gvars, error>>
    /\ UNCHANGED <<filterMenus, activeFilterMenu>>

\* loadFromURL(url) from its first await on: the fetch settles, and the
\* try block either runs _setDataAndRender to its end or throws into catch.
Settle(r) ==
    /\ r \in InFlight
    /\ pending' = (pending \ {r}) \cup {Settled(r)}
    /\ IF Iterable(r.body)
       THEN setDataAndRender(Spread(r.body), TRUE)
       ELSE UNCHANGED <<hvars, rvars, gvars, error>>
    /\ UNCHANGED <<filterMenus, activeFilterMenu>>

\* loadFromJSON(data) called from outside: nothing catches what render throws.
loadJSON(data) ==
    /\ setDataAndRender(data, FALSE)
    /\ UNCHANGED <<filterMenus, activeFilterMenu, pending>>

LoadNext ==
    \/ \E body \in Bodies : loadFromURL(body)
    \/ \E r \in pending : Settle(r)
    \/ \E data \in LoadArrays : loadJSON(data)

LoadSpec == LoadInit /\ [][LoadNext]_vars

\* The browser settles every fetch; nothing obliges the page to call the grid.
FairLoadSpec == LoadSpec /\ WF_vars(\E r \in pending : Settle(r))

----------------------------------------------------------------------------
(***************************************************************************)
(* Properties of the header layout.                                        *)
(***************************************************************************)
RECURSIVE SumColspan(_)
SumColspan(row) ==
    IF row = <<>> THEN 0
    ELSE row[Len(row)].colspan + SumColspan(SubSeq(row, 1, Len(row) - 1))

Level0Sum == IF headerRows = <<>> THEN 0 ELSE SumColspan(headerRows[1])

HeaderCells == { <<l, p>> \in (1..Len(headerRows)) \X (1..MaxNodes + 1) :
                    p <= Len(headerRows[l]) }

Childless(l, p) == Len(headerRows[l][p].children) = 0

\* The childless header cells on the rows above row l.
LeavesAbove(l) == { c \in HeaderCells : c[1] < l /\ Childless(c[1], c[2]) }

\* No two cells of one header row carry the same key.
RowKeysDistinct ==
    \A c \in HeaderCells : \A d \in HeaderCells :
        (c[1] = d[1] /\ c[2] # d[2])
            => headerRows[c[1]][c[2]].key # headerRows[d[1]][d[2]].key

\* C2: after the layout, the colspans of the level-0 header cells add up to
\* the number of leaf columns (the same key may occur under different parents).
C2_Level0Tiling == runs > 0 => Level0Sum = Len(leafColumns)

RECURSIVE SortedLeafIds(_), LeafIdsInOrder(_)
SortedLeafIds(cols) == LeafIdsInOrder(SortByIndex(cols))

LeafIdsInOrder(cols) ==
    IF cols = <<>> THEN <<>>
    ELSE (IF Len(Head(cols).children) = 0 THEN <<Head(cols).id>>
          ELSE SortedLeafIds(Head(cols).children))
         \o LeafIdsInOrder(Tail(cols))

LeafIds == [i \in 1..Len(leafColumns) |-> leafColumns[i].id]

\* C4: leafColumns lists the childless nodes in depth-first pre-order with
\* the siblings of every level taken in ascending index order (ties in array
\* order), and a second run of the layout returns the same sequence.
C4_LeafOrder ==
    /\ runs > 0 => LeafIds = SortedLeafIds(columns)
    /\ runs > 1 => LeafIds = [i \in 1..Len(CalcHeaderStructure(columns).leafColumns) |->
                                 CalcHeaderStructure(columns).leafColumns[i].id]

\* C8: a header cell without children has rowspan + level = maxDepth (the
\* number of header rows); a header cell with children has rowspan 1.
C8_Rowspan ==
    runs > 0 =>
        \A c \in HeaderCells :
            LET h == headerRows[c[1]][c[2]]
            IN  IF Len(h.children) = 0
                THEN h.rowspan + h.level = Len(headerRows)
                ELSE h.rowspan = 1

\* A laid-out forest with a group header and a childless cell that spans
\* more than one header row.
C8_Witness ==
    /\ runs > 0
    /\ \E c \in HeaderCells : Len(headerRows[c[1]][c[2]].children) > 0
    /\ \E c \in HeaderCells :
          /\ Len(headerRows[c[1]][c[2]].children) = 0
          /\ headerRows[c[1]][c[2]].rowspan > 1

----------------------------------------------------------------------------
(***************************************************************************)
(* Properties of render and reconcile.                                     *)
(***************************************************************************)

\* The key attributes of the rows that carry one, top to bottom.
RECURSIVE BodyKeys(_)
BodyKeys(body) ==
    IF body = <<>> THEN <<>>
    ELSE (IF Head(body).key = <<>> THEN <<>> ELSE <<Head(body).key[1]>>)
         \o BodyKeys(Tail(body))

KeySet(body) == { BodyKeys(body)[i] : i \in 1..Len(BodyKeys(body)) }

RowsWithKey(body, k) == { i \in 1..Len(body) : body[i].key = <<k>> }

IsPermutation(d, e) ==
    /\ Len(d) = Len(e)
    /\ { d[i] : i \in 1..Len(d) } = { e[i] : i \in 1..Len(e) }

NewKeys == { CompositeKey(lastData'[i], config.keyField) : i \in 1..Len(lastData') }

\* C1: a reconcile of a body that render() built, with a permutation of the
\* rendered records, leaves the row keys of the body, read top to bottom,
\* equal to the composite keys of the new data.
C1_PermutationOrder ==
    [][(lastOp = "render" /\ lastOp' = "reconcile" /\ IsPermutation(lastData', lastData))
          => BodyKeys(tbody') = DataKeys(lastData', config.keyField)]_vars

\* C5: a reconcile of rows with distinct keys P against data with keys N keeps
\* the row element of every key in both, creates exactly one new row for
\* every key of N outside P, and leaves no row for a key of P outside N.
C5_ReuseCreateRemove ==
    [][(lastOp' = "reconcile" /\ Cardinality(KeySet(tbody)) = Len(BodyKeys(tbody)))
          => /\ \A k \in KeySet(tbody) \cap NewKeys :
                   /\ Cardinality(RowsWithKey(tbody', k)) = 1
                   /\ \A i \in RowsWithKey(tbody', k) : \A j \in RowsWithKey(tbody, k) :
                          tbody'[i].el = tbody[j].el
             /\ \A k \in NewKeys \ KeySet(tbody) :
                   /\ Cardinality(RowsWithKey(tbody', k)) = 1
                   /\ \A i \in RowsWithKey(tbody', k) : tbody'[i].el \notin Els(tbody)
             /\ \A k \in KeySet(tbody) \ NewKeys : RowsWithKey(tbody', k) = {}]_vars

\* C6: a reconcile with the very data of the previous call (render or
\* reconcile) writes no row content and moves, inserts and removes no row.
C6_IdenticalDataNoMutation ==
    [][(lastOp # "none" /\ lastOp' = "reconcile" /\ lastData' = lastData)
          => ops' = NoOps]_vars

\* C7: after a reconcile with empty data the body holds exactly one row, the
\* "No Data Available" placeholder.
C7_EmptyDataPlaceholder ==
    (lastOp = "reconcile" /\ lastData = <<>>)
        => /\ Len(tbody) = 1
           /\ tbody[1].key = <<>>
           /\ Len(tbody[1].cells) = 1
           /\ tbody[1].cells[1].text = "No Data Available"

----------------------------------------------------------------------------
(***************************************************************************)
(* Properties of the grid controller and its data store.                   *)
(***************************************************************************)

\* C9: whenever an action menu has been opened from a body row, its callbacks
\* are bound to the record that produced that row (the record at the same
\* position of the data the body was rendered from), for a single-field and
\* for a comma-joined keyField alike.
C9_ActionMenuRecord ==
    menu.row # 0 => menu.record = <<lastData[menu.row]>>

Passes(row) == \A key \in DOMAIN filterState : row[key] \in filterState[key]

Records(data) == { data[i] : i \in 1..Len(data) }

ViewIsFiltered ==
    /\ Records(viewData) = { row \in Records(originalData) : Passes(row) }
    /\ Len(viewData) = Cardinality(Records(viewData))

\* C10: every applyFilter call leaves in the view exactly the original
\* records whose value for every key of filterState is in that key's accepted
\* list; an empty selection removes its key from filterState, and when no
\* filter remains the view holds every original record.
C10_FilteredView ==
    [][ \A key \in FilterKeys : \A selection \in Selections(key) :
            applyFilter(key, selection) =>
                /\ ViewIsFiltered'
                /\ selection = {} => key \notin DOMAIN filterState'
                /\ DOMAIN filterState' = {} =>
                       /\ Records(viewData') = Records(originalData')
                       /\ Len(viewData') = Len(originalData') ]_vars

\* Two filters are set, the view is what they leave, and some original
\* record passes one of them only.
C10_Witness ==
    /\ DOMAIN filterState = {"a", "s"}
    /\ ViewIsFiltered
    /\ viewData # <<>>
    /\ \E row \in Records(originalData) :
          /\ row.a \in filterState["a"]
          /\ row.s \notin filterState["s"]
          /\ row \notin Records(viewData)

IsNull(row, key) == FieldOf(row, <<key>>) = <<>>

\* x comes no later than y in the given direction.
Leq(x, y, order) ==
    \/ x = y
    \/ IF order = "asc" THEN x[1] < y[1] ELSE x[1] > y[1]

NullsLast(view, key) ==
    \A i \in 1..Len(view) : \A j \in 1..Len(view) :
        (IsNull(view[i], key) /\ ~IsNull(view[j], key)) => j < i

InOrder(view, key, order) ==
    \A i \in 1..Len(view) : \A j \in 1..Len(view) :
        (i < j /\ ~IsNull(view[i], key) /\ ~IsNull(view[j], key))
            => Leq(FieldOf(view[i], <<key>>), FieldOf(view[j], <<key>>), order)

\* C11: after the view has been sorted by a key, ascending or descending,
\* every record whose value for the key is null comes after every record
\* with a value, and the records with a value are in the order asked for.
C11_SortNullsLast ==
    [][ \A key \in SortKeys :
            handleHeaderClick(key) =>
                /\ NullsLast(viewData', key)
                /\ InOrder(viewData', key, sortState'.order) ]_vars

\* The records of page p of a view, pageSize records to the page.
ExpectedPage(view, p, pageSize) ==
    LET first == (p - 1) * pageSize
        last  == IF p * pageSize < Len(view) THEN p * pageSize ELSE Len(view)
    IN  [k \in 1..(last - first) |-> view[first + k]]

\* The body shows exactly the given records: one keyed row for each, in
\* order, or the placeholder row when there is none.
BodyShows(data) ==
    IF data = <<>>
    THEN /\ Len(tbody) = 1
         /\ tbody[1].key = <<>>
         /\ tbody[1].cells[1].text = "No Data Available"
    ELSE /\ Len(tbody) = Len(data)
         /\ \A i \in 1..Len(data) :
               tbody[i].key = <<CompositeKey(data[i], config.keyField)>>

SameRecords(d, e) == Records(d) = Records(e) /\ Len(d) = Len(e)

\* C12: a header click on the column that is sorted already keeps the key
\* and flips the order; a click on another column makes it the sort key,
\* ascending.  The view keeps its records, is ordered by the new sortState,
\* and the page rendered is taken from the view so ordered.
C12_HeaderClickToggle ==
    [][ \A key \in SortKeys :
            handleHeaderClick(key) =>
                /\ sortState'.key = <<key>>
                /\ sortState'.order =
                      (IF sortState.key = <<key>> /\ sortState.order = "asc"
                       THEN "desc" ELSE "asc")
                /\ SameRecords(viewData', viewData)
                /\ InOrder(viewData', key, sortState'.order)
                /\ lastOp' = "render"
                /\ lastData' = ExpectedPage(viewData', pagingState'.currentPage,
                                            pagingState'.pageSize)
                /\ BodyShows(lastData)' ]_vars

\* The same column has been clicked twice: the view is sorted descending and
\* holds two records with different values.
C12_Witness ==
    /\ sortState = [key |-> <<"s">>, order |-> "desc"]
    /\ \E i \in 1..Len(viewData) : \E j \in 1..Len(viewData) :
          /\ i < j
          /\ viewData[i].s # <<>>
          /\ viewData[j].s # <<>>
          /\ viewData[i].s[1] > viewData[j].s[1]

\* C13: goToPage(n) with n < 1 or n > totalPages changes nothing at all (an
\* open action menu, which any render would discard, included); with n in
\* range the current page becomes n and that page of the view is rendered.
C13_GoToPage ==
    [][ \A n \in PageNumbers :
            goToPage(n) =>
                IF n < 1 \/ n > pagingState.totalPages
                THEN UNCHANGED <<hvars, rvars, gvars>>
                ELSE /\ pagingState'.currentPage = n
                     /\ viewData' = viewData
                     /\ lastOp' = "render"
                     /\ lastData' = ExpectedPage(viewData, n, pagingState.pageSize)
                     /\ BodyShows(lastData)' ]_vars

\* A later page is shown.
C13_Witness ==
    /\ pagingState.currentPage > 1
    /\ lastData # <<>>
    /\ lastData = ExpectedPage(viewData, pagingState.currentPage, pagingState.pageSize)
    /\ BodyShows(lastData)

OrderedBy(view, state) ==
    state.key # <<>> => InOrder(view, state.key[1], state.order)

\* C15: applyFilter, with an empty or a non-empty selection, leaves the
\* current page at 1 and sortState as it was; the view holds the records
\* that pass the filters, ordered by that sortState, and its first page is
\* rendered.
C15_ApplyFilterKeepsSort ==
    [][ \A key \in FilterKeys : \A selection \in Selections(key) :
            applyFilter(key, selection) =>
                /\ pagingState'.currentPage = 1
                /\ sortState' = sortState
                /\ ViewIsFiltered'
                /\ OrderedBy(viewData', sortState)
                /\ lastData' = ExpectedPage(viewData', 1, pagingState'.pageSize)
                /\ BodyShows(lastData)' ]_vars

\* A filter is set while a sort is active, page 1 is shown, and the view,
\* in sort order, is not in the order of the original data.
C15_Witness ==
    /\ DOMAIN filterState # {}
    /\ sortState.key = <<"s">>
    /\ pagingState.currentPage = 1
    /\ ViewIsFiltered
    /\ OrderedBy(viewData, sortState)
    /\ viewData # filterData(originalData, filterState)

----------------------------------------------------------------------------
(***************************************************************************)
(* Properties of the filter menus.                                         *)
(***************************************************************************)

OpenMenus == { m \in 1..Len(filterMenus) : filterMenus[m].open }

\* C16: at most one filter menu is attached to the document, and an open
\* menu is the one created last: the menu open before it was closed when it
\* was created.
C16_OneOpenMenu ==
    /\ Cardinality(OpenMenus) <= 1
    /\ \A m \in OpenMenus : m = activeFilterMenu /\ m = Len(filterMenus)

\* A second menu is open while the first, closed, still waits for its timer:
\* no click on the document can have closed it.
C16_Witness ==
    /\ Len(filterMenus) >= 2
    /\ OpenMenus = {Len(filterMenus)}
    /\ ~filterMenus[1].open
    /\ filterMenus[1].timer
    /\ filterState = <<>>

----------------------------------------------------------------------------
(***************************************************************************)
(* Properties of loading.                                                  *)
(***************************************************************************)

\* C17: every array response that settles replaces the store contents and
\* the view with its records and renders their first page, whatever other
\* loads were started before or after it: the response settling last wins.
C17_LastResolvedWins ==
    [][ \A r \in pending :
            (Settle(r) /\ r.body.kind = "array") =>
                /\ originalData' = r.body.data
                /\ viewData' = r.body.data
                /\ pagingState'.currentPage = 1
                /\ lastOp' = "render"
                /\ lastData' = ExpectedPage(r.body.data, 1, pagingState'.pageSize) ]_vars

\* Two loads with different records settled in the reverse of the order in
\* which they were started, and the store holds those of the first.
C17_Witness ==
    \E r \in pending : \E q \in pending :
        /\ r.id < q.id
        /\ q.settled > 0
        /\ r.settled > q.settled
        /\ r.body.kind = "array"
        /\ q.body.kind = "array"
        /\ r.body.data # q.body.data
        /\ originalData = r.body.data
        /\ viewData = r.body.data

\* C18: a load whose fetch rejects, whose body is not JSON or whose JSON
\* value is not an array lets no exception escape and leaves the store, the
\* columns, the paging state and the rendered view as they were.
C18_FailedLoadChangesNothing ==
    [][ \A r \in pending :
            (Settle(r) /\ r.body.kind # "array") =>
                /\ error' = error
                /\ UNCHANGED <<hvars, rvars, gvars>> ]_vars

PlaceholderShown ==
    /\ lastOp # "none"
    /\ Len(tbody) = 1
    /\ tbody[1].key = <<>>
    /\ tbody[1].cells[1].text = "No Data Available"

\* The grid was constructed with a data source of an unsupported mode, or
\* with a URL whose load is going to fail.
ConstructedWithFailingSource ==
    /\ "dataSource" \in DOMAIN config
    /\ \/ config.dataSource = "other"
       \/ \E r \in InFlight : r.id = 1 /\ ~Iterable(r.body)

\* C19: a grid constructed with a data source whose load fails, or whose
\* mode is unsupported, eventually shows the placeholder row.
C19_FailedSourceShowsPlaceholder ==
    ConstructedWithFailingSource => <>PlaceholderShown

\* C20: with config.keyField missing, a non-empty record array is loaded and
\* rendered, one row for each record of the page, and no exception escapes.
C20_MissingKeyFieldRenders ==
    (KeyFieldMissing /\ lastOp # "none" /\ lastData # <<>>)
        => /\ error = "none"
           /\ Len(tbody) = Len(lastData)

----------------------------------------------------------------------------
(***************************************************************************)
(* Properties of the cells.                                                *)
(***************************************************************************)

\* The text a cell shows for a raw value that is left as it is.
RawText(column, value) ==
    IF column.key = "s" THEN ToString(value[1]) ELSE value[1]

\* A value no date can be read from: a string that does not parse, or a
\* number up to the threshold (zero included).
NotADate(column, value) ==
    /\ value # <<>>
    /\ IF column.key = "s" THEN value[1] <= 100000 ELSE value[1] \notin DateStrings

\* C21: in a date column with a dateFormat configured, a value no date can
\* be read from is shown as the raw value, after render() and after
\* reconcile().
C21_MalformedDateShownRaw ==
    lastOp # "none" =>
        \A j \in 1..Len(leafColumns) :
            LET column == leafColumns[j]
                value  == lastData[1][column.key]
            IN  (IsDateColumn(column) /\ NotADate(column, value))
                    => tbody[1].cells[j].text = RawText(column, value)

\* C22: with no nullPlaceholder configured, the cell of a column whose value
\* is null or undefined in the record shows the empty string.
C22_NullShowsEmpty ==
    (lastOp # "none" /\ config.nullPlaceholder = <<>>) =>
        \A j \in 1..Len(leafColumns) :
            lastData[1][leafColumns[j].key] = <<>> => tbody[1].cells[j].text = ""

----------------------------------------------------------------------------
(***************************************************************************)
(* Further properties of the header layout.                                *)
(***************************************************************************)

\* C23: a call of the layout leaves the column array it was given, with
\* every children array and every node, as it was before the call.
C23_InputUnchanged ==
    [][CalculateHeaderStructure => columns' = columns]_vars

\* C24: after render() with an empty data array the body holds one row with
\* one cell, "No Data Available", whose colspan is the number of leaf columns.
C24_PlaceholderSpansLeaves ==
    (lastOp = "render" /\ lastData = <<>>) =>
        /\ Len(tbody) = 1
        /\ Len(tbody[1].cells) = 1
        /\ tbody[1].cells[1].text = "No Data Available"
        /\ tbody[1].cells[1].colspan = Len(leafColumns)

----------------------------------------------------------------------------
(***************************************************************************)
(* Further properties of the grid controller.                              *)
(***************************************************************************)

\* The caller's configuration gave no pageSize: the paging object is the
\* default one, or the caller's own without pageSize.
PageSizeOmitted ==
    config.paging = DefaultPaging \/ "pageSize" \notin DOMAIN config.paging

\* C25: when the caller's configuration gives no paging.pageSize, the page
\* size is 10 and the rows rendered are the records of the current page of
\* the view, ten to the page.
C25_DefaultPageSize ==
    PageSizeOmitted =>
        /\ pagingState.pageSize = 10
        /\ lastData = ExpectedPage(viewData, pagingState.currentPage, 10)
        /\ BodyShows(lastData)

\* C26: in every state the grid reaches through loads, header clicks, filter
\* applications and goToPage calls, the view holds exactly the records of
\* the original data that pass every filter of filterState, each once.
C26_ViewAlwaysFiltered ==
    /\ \A i \in 1..Len(viewData) : Passes(viewData[i])
    /\ \A i \in 1..Len(originalData) :
          Passes(originalData[i]) => originalData[i] \in Records(viewData)
    /\ Records(viewData) \subseteq Records(originalData)
    /\ Len(viewData) = Cardinality(Records(viewData))

\* C27: in every state the grid reaches, a sortState with a key means that
\* the view is ordered by that key in that order (records without a value
\* for the key aside).
C27_ViewAlwaysSorted ==
    sortState.key # <<>> => InOrder(viewData, sortState.key[1], sortState.order)

Max(m, n) == IF m > n THEN m ELSE n

\* C28: in every state the grid reaches, the current page lies between 1 and
\* max(1, totalPages), and totalPages is the number of pages of the view.
C28_CurrentPageInRange ==
    /\ pagingState.pageSize > 0
    /\ pagingState.totalPages = CeilDiv(Len(viewData), pagingState.pageSize)
    /\ pagingState.currentPage >= 1
    /\ pagingState.currentPage <= Max(1, pagingState.totalPages)

\* The last of two pages of a filtered, sorted view is shown.
C28_Witness ==
    /\ pagingState.currentPage = 2
    /\ pagingState.totalPages = 2
    /\ DOMAIN filterState # {}
    /\ sortState.key # <<>>

----------------------------------------------------------------------------
(***************************************************************************)
(* Further properties of render and reconcile.                             *)
(***************************************************************************)

\* The text of the cells that render() builds for a record.
RenderedTexts(rowData) ==
    [j \in 1..Len(leafColumns) |->
        ParseCells(RenderRowMarkup(rowData, leafColumns))[j].text]

\* C29: the cells of a row that reconcile() has written show, column by
\* column, the text that render() shows for the same record, columns and
\* configuration.
C29_ReconcileCellsAsRender ==
    lastOp = "reconcile" =>
        \A j \in 1..Len(leafColumns) :
            tbody[1].cells[j].text = RenderedTexts(lastData[1])[j]

\* C30: after a reconcile the body holds one row for every record of the
\* new data and no other row, whatever the body held before (the
\* placeholder row included).  The new data is not empty, and row keys are
\* non-empty: a row with an empty key attribute is never matched.
C30_ExactlyTheNewRows ==
    [][(lastOp' = "reconcile" /\ lastData' # <<>>
            /\ "" \notin NewKeys /\ "" \notin KeySet(tbody))
          => /\ Len(tbody') = Len(lastData')
             /\ \A i \in 1..Len(tbody') : tbody'[i].key # <<>>
             /\ KeySet(tbody') = NewKeys]_vars
====
